---- MODULE Spec2Model ----
(***************************************************************************)
(* Model of src/services.py: the Auth0 bearer-token gateway of the PCO     *)
(* Services MCP server.                                                    *)
(*                                                                         *)
(*   Auth0Middleware   __init__, _get_signing_key, dispatch                *)
(*   create_app        the two compositions (open / protected) and the     *)
(*                     Starlette routing over the mounts it declares       *)
(*                                                                         *)
(* The calls into PyJWT (jwt.PyJWKClient, jwt.decode) and into Starlette   *)
(* (Mount, Router) are modelled by what those libraries do at the call     *)
(* sites, with the default arguments the source leaves in place. PyJWT is  *)
(* the 2.10 line that the mcp package imported at line 14 depends on.      *)
(*                                                                         *)
(* dispatch awaits nothing before call_next that yields to the event loop  *)
(* (_get_signing_key and the PyJWT calls are synchronous), so one request  *)
(* is handled in one step.                                                 *)
(*                                                                         *)
(* Time is counted in units of the key-set cache lifespan of PyJWKClient   *)
(* (its default, 300 s): one tick of `now` is one lifespan.                *)
(***************************************************************************)
EXTENDS Integers, Sequences, FiniteSets, TLC

VARIABLES
    now,            \* the clock read by jwt.decode and by the key-set cache
    provider,       \* the key set the identity provider publishes: kid -> key material
    mw,             \* the Auth0Middleware instance (domain, audience, jwks_client)
    clientsCreated, \* how many times jwt.PyJWKClient(...) was constructed
    jwk_set_cache,  \* the PyJWKClient's cached key set and its timestamp
    config,         \* AUTH0_DOMAIN, AUTH0_AUDIENCE, BASE_URL as read from the environment
    app,            \* the Starlette application create_app returned
    log,            \* the levels logged by create_app
    resolved,       \* the last key resolution: its kid and the key it returned ("": it raised)
    last            \* the request in hand and what became of it (with the time and
                    \* the published key set at which it was handled)

vars == <<now, provider, mw, clientsCreated, jwk_set_cache, config, app, log, resolved, last>>

(***************************************************************************)
(* Bounds                                                                  *)
(***************************************************************************)
MaxTime == 2

\* in how many fields a token may differ from the valid token of scenario A
MaxDeviations == 3

Times == 0..MaxTime

(***************************************************************************)
(* PyJWKClient(uri) as constructed at line 56: cache_jwk_set=True with the *)
(* default lifespan, counted in ticks.                                     *)
(***************************************************************************)
Lifespan == 1

(***************************************************************************)
(* Strings that the source slices character by character are sequences of  *)
(* one-character strings.                                                  *)
(***************************************************************************)
BearerPrefix == <<"B", "e", "a", "r", "e", "r", " ">>

StartsWith(s, p) == Len(s) >= Len(p) /\ SubSeq(s, 1, Len(p)) = p

\* s[n:] of Python, n counted from 0
SliceFrom(s, n) == IF n >= Len(s) THEN <<>> ELSE SubSeq(s, n + 1, Len(s))

(***************************************************************************)
(* Inputs: tokens, Authorization headers, requests                         *)
(***************************************************************************)
Kids == {"k1", "k2"}

\* the provider signs with "m1" (kid k1) and, once rotated, with "m2" (kid k2)
Materials == {"m1", "m2"}

ProviderInitial == {<<"k1", "m1">>}

ProviderRotated == {<<"k1", "m1">>, <<"k2", "m2">>}

Algs == {"RS256", "HS256"}

TestDomain == "idp.test"

TestAudience == "svc"

\* the issuer without its trailing slash
IssuerNoSlash(domain) == <<"https://", domain>>

\* f"https://{domain}/" of line 82
Issuer(domain) == <<"https://", domain, "/">>

\* the issuer of the test domain, and the same without its trailing slash
IssValues == {<<"https://", "idp.test", "/">>, <<"https://", "idp.test">>}

\* an aud claim is a string or a list of strings: the set of its members
AudValues == {{"svc"}, {"other"}, {"other", "svc"}}

\* a sub claim with its JSON type
SubValues == {<<"str", "user1">>, <<"int", "42">>}

ClaimTimes == 1..MaxTime

Optional(S) == {{}} \cup {{v} : v \in S}

\* The payload is a JSON object: a function from the names of the claims it
\* carries to their values. A claim the token lacks is not in its DOMAIN.
\* (The arguments are empty for an absent claim, else the singleton of its value.)
MkPayload(e, n, i, a, s, u) ==
    LET names == (IF e = {} THEN {} ELSE {"exp"}) \cup (IF n = {} THEN {} ELSE {"nbf"})
                 \cup (IF i = {} THEN {} ELSE {"iat"}) \cup (IF a = {} THEN {} ELSE {"aud"})
                 \cup (IF s = {} THEN {} ELSE {"iss"}) \cup (IF u = {} THEN {} ELSE {"sub"})
        The(x) == CHOOSE v \in x : TRUE
    IN  [c \in names |-> CASE c = "exp" -> The(e)
                           [] c = "nbf" -> The(n)
                           [] c = "iat" -> The(i)
                           [] c = "aud" -> The(a)
                           [] c = "iss" -> The(s)
                           [] c = "sub" -> The(u)]

Has(payload, c) == c \in DOMAIN payload

Payloads ==
    {MkPayload(e, n, i, a, s, u) :
        e \in Optional(ClaimTimes), n \in Optional(ClaimTimes), i \in Optional({MaxTime}),
        a \in Optional(AudValues), s \in Optional(IssValues), u \in Optional(SubValues)}

\* A well-formed JWT: header, payload and the key material that signed it.
AllJwts == [header : [alg : Algs, kid : Kids], payload : Payloads, sig : Materials]

\* Credentials that are not three base64url segments.
Garbage == [raw |-> "garbage"]

EmptyString == [raw |-> ""]

IsJwt(tok) == "header" \in DOMAIN tok

\* An Authorization header value: the characters before the credential, then
\* the credential. A credential's text holds no space.
HeaderValue(pre, tok) == [pre |-> pre, tok |-> tok]

NoHeaders == [h \in {} |-> HeaderValue(<<>>, EmptyString)]

WithAuthorization(v) == [h \in {"Authorization"} |-> v]

\* request.headers.get(name, default)
HeadersGet(headers, name, default) == IF name \in DOMAIN headers THEN headers[name] ELSE default

NonBearerPrefixes ==
    { <<>>,
      <<"B", "e", "a", "r", "e", "r">>,
      <<"b", "e", "a", "r", "e", "r", " ">>,
      <<"B", "E", "A", "R", "E", "R", " ">>,
      <<"B", "a", "s", "i", "c", " ">>,
      <<" ", "B", "e", "a", "r", "e", "r", " ">> }

BearerPrefixes == {BearerPrefix, BearerPrefix \o <<" ">>}

\* the token of end-to-end scenario A (exp in the future at every time below MaxTime)
ScenarioA ==
    [header |-> [alg |-> "RS256", kid |-> "k1"],
     payload |-> MkPayload({MaxTime}, {}, {}, {{"svc"}}, {<<"https://", "idp.test", "/">>},
                          {<<"str", "user1">>}),
     sig |-> "m1"]

ClaimNames == {"exp", "nbf", "iat", "aud", "iss", "sub"}

SameClaim(p, q, c) == (Has(p, c) <=> Has(q, c)) /\ (Has(p, c) => p[c] = q[c])

Deviations(tok) ==
    Cardinality({c \in ClaimNames : ~SameClaim(tok.payload, ScenarioA.payload, c)})
    + (IF tok.header.alg # ScenarioA.header.alg THEN 1 ELSE 0)
    + (IF tok.header.kid # ScenarioA.header.kid THEN 1 ELSE 0)
    + (IF tok.sig # ScenarioA.sig THEN 1 ELSE 0)

Jwts == {t \in AllJwts : Deviations(t) <= MaxDeviations}

\* the same token signed by another key
Forged == [ScenarioA EXCEPT !.sig = "m2"]

SampleCredentials == {ScenarioA, Forged, Garbage, EmptyString}

McpPath == <<"/", "mcp", "/">>

Request(method, path, headers) == [method |-> method, path |-> path, headers |-> headers]

\* the requests given to Auth0Middleware.dispatch
BearerRequests ==
    {Request("POST", McpPath, WithAuthorization(HeaderValue(BearerPrefix, t))) : t \in Jwts}

OtherRequests ==
    {Request(m, McpPath, WithAuthorization(HeaderValue(p, t))) :
        m \in {"POST", "OPTIONS"}, p \in NonBearerPrefixes \cup BearerPrefixes,
        t \in SampleCredentials}
    \cup {Request(m, McpPath, NoHeaders) : m \in {"POST", "GET", "OPTIONS"}}

Requests == BearerRequests \cup OtherRequests

NetOutcomes == {"up", "down"}

(***************************************************************************)
(* PyJWT, as called at lines 56, 57 and 77-83                              *)
(***************************************************************************)
\* jwt.InvalidTokenError and its subclasses: what `except jwt.InvalidTokenError`
\* (line 92) catches. PyJWKClientError and PyJWKClientConnectionError derive from
\* PyJWTError directly and are not among them.
InvalidTokenErrors ==
    {"InvalidTokenError", "DecodeError", "InvalidSignatureError", "ExpiredSignatureError",
     "InvalidAudienceError", "InvalidIssuerError", "InvalidIssuedAtError",
     "ImmatureSignatureError", "InvalidAlgorithmError", "MissingRequiredClaimError",
     "InvalidSubjectError"}

EmptyCache == [set |-> FALSE, keys |-> {}, at |-> 0]

\* JWKSetCache.is_expired
is_expired(cache, t) == cache.set /\ t > cache.at + Lifespan

\* JWKSetCache.get: the cached key set, or nothing when there is none or it expired
CacheGet(cache, t) == IF cache.set /\ ~is_expired(cache, t) THEN {cache.keys} ELSE {}

\* PyJWKClient.fetch_data: one request to the JWKS endpoint. The cache is
\* overwritten with the answer, and cleared when the request fails.
fetch_data(prov, t, net) ==
    IF net = "up"
    THEN [exc |-> "none", keys |-> prov, cache |-> [set |-> TRUE, keys |-> prov, at |-> t],
          fetches |-> 1]
    ELSE [exc |-> "PyJWKClientConnectionError", keys |-> {}, cache |-> EmptyCache,
          fetches |-> 1]

\* PyJWKClient.get_jwk_set(refresh)
get_jwk_set(cache, refresh, prov, t, net) ==
    IF ~refresh /\ CacheGet(cache, t) # {}
    THEN [exc |-> "none", keys |-> cache.keys, cache |-> cache, fetches |-> 0]
    ELSE fetch_data(prov, t, net)

\* PyJWKClient.match_kid
match_kid(keys, kid) == {k \in keys : k[1] = kid}

\* get_signing_key returns the matching key of key set `set`, after n fetches
KeyFound(set, kid, n) ==
    [exc |-> "none", key |-> (CHOOSE k \in match_kid(set.keys, kid) : TRUE)[2],
     cache |-> set.cache, fetches |-> n]

\* get_signing_key raises
KeyFailed(exc, set, n) == [exc |-> exc, key |-> "", cache |-> set.cache, fetches |-> n]

\* PyJWKClient.get_signing_key, after the refetch: the key, or PyJWKClientError
AfterRefresh(again, kid, before) ==
    IF again.exc # "none" THEN KeyFailed(again.exc, again, before + again.fetches)
    ELSE IF match_kid(again.keys, kid) # {} THEN KeyFound(again, kid, before + again.fetches)
    ELSE KeyFailed("PyJWKClientError", again, before + again.fetches)

\* PyJWKClient.get_signing_key, after get_signing_keys(): the key, or a refetch
\* when the kid is not in the set
AfterLookup(first, kid, prov, t, net) ==
    IF first.exc # "none" THEN KeyFailed(first.exc, first, first.fetches)
    ELSE IF match_kid(first.keys, kid) # {} THEN KeyFound(first, kid, first.fetches)
    ELSE AfterRefresh(get_jwk_set(first.cache, TRUE, prov, t, net), kid, first.fetches)

\* PyJWKClient.get_signing_key(kid)
get_signing_key(cache, kid, prov, t, net) ==
    AfterLookup(get_jwk_set(cache, FALSE, prov, t, net), kid, prov, t, net)

\* PyJWKClient.get_signing_key_from_jwt(token): the unverified header names the kid
get_signing_key_from_jwt(cache, rest, tok, prov, t, net) ==
    IF rest # <<>> \/ ~IsJwt(tok)
    THEN [exc |-> "DecodeError", key |-> "", cache |-> cache, fetches |-> 0]
    ELSE get_signing_key(cache, tok.header.kid, prov, t, net)

\* PyJWT's validation of the registered claims (leeway 0, no required claims),
\* in its order: iat, nbf, exp, iss, aud, sub.
ValidateClaims(payload, audience, issuer, t) ==
    IF Has(payload, "iat") /\ payload["iat"] > t THEN "ImmatureSignatureError"
    ELSE IF Has(payload, "nbf") /\ payload["nbf"] > t THEN "ImmatureSignatureError"
    ELSE IF Has(payload, "exp") /\ payload["exp"] <= t THEN "ExpiredSignatureError"
    ELSE IF ~Has(payload, "iss") THEN "MissingRequiredClaimError"
    ELSE IF payload["iss"] # issuer THEN "InvalidIssuerError"
    ELSE IF ~Has(payload, "aud") THEN "MissingRequiredClaimError"
    ELSE IF audience \notin payload["aud"] THEN "InvalidAudienceError"
    ELSE IF Has(payload, "sub") /\ payload["sub"][1] # "str" THEN "InvalidSubjectError"
    ELSE "none"

\* jwt.decode(token, key, algorithms=[...], audience=..., issuer=...): the
\* algorithm of the header, then the signature, then the claims.
jwt_decode(tok, key, algorithms, audience, issuer, t) ==
    IF tok.header.alg \notin algorithms THEN "InvalidAlgorithmError"
    ELSE IF tok.sig # key THEN "InvalidSignatureError"
    ELSE ValidateClaims(tok.payload, audience, issuer, t)

(***************************************************************************)
(* Auth0Middleware                                                         *)
(***************************************************************************)
EmptyPayload == MkPayload({}, {}, {}, {}, {}, {})

\* request.state.user before anything is stored in it
Unset == [set |-> FALSE, payload |-> EmptyPayload]

NoMiddleware == [constructed |-> FALSE, domain |-> "", audience |-> "", jwks_client |-> "None"]

\* Auth0Middleware.__init__
NewMiddleware(domain, audience) ==
    [constructed |-> TRUE, domain |-> domain, audience |-> audience, jwks_client |-> "None"]

\* a client made anew on every call
CacheOfAlwaysNew(m, cache) == EmptyCache

\* a PyJWKClient starts with an empty key-set cache
CacheOf(m, cache) == IF m.jwks_client = "None" THEN EmptyCache ELSE cache

WithClient(m, created, r) ==
    [exc |-> r.exc, key |-> r.key, cache |-> r.cache, fetches |-> r.fetches,
     mw |-> [m EXCEPT !.jwks_client = "PyJWKClient"],
     created |-> IF m.jwks_client = "None" THEN created + 1 ELSE created]

\* Auth0Middleware._get_signing_key: the client is made on first use, then reused
_get_signing_key(m, cache, created, rest, tok, prov, t, net) ==
    WithClient(m, created, get_signing_key_from_jwt(CacheOf(m, cache), rest, tok, prov, t, net))

\* the except clauses in the other order: the general one first
ExceptClauseSwapped(exc) ==
    IF exc \in InvalidTokenErrors THEN "invalid"
    ELSE IF exc = "ExpiredSignatureError" THEN "expired"
    ELSE "propagate"

\* the except clauses of lines 86 and 92, tried in order
ExceptClause(exc) ==
    IF exc = "ExpiredSignatureError" THEN "expired"
    ELSE IF exc \in InvalidTokenErrors THEN "invalid"
    ELSE "propagate"

Response(status, error, description, www) ==
    [status |-> status, error |-> error, error_description |-> description,
     www_authenticate |-> www]

\* what call_next(request) returns: the answer of the wrapped tool surface
Downstream == Response(200, "", "", <<>>)

\* lines 67-71
MissingHeaderResponse(m) ==
    Response(401, "invalid_request", "Missing or invalid Authorization header",
             <<"Bearer realm=", m.audience>>)

\* lines 87-91
ExpiredResponse(m) ==
    Response(401, "invalid_token", "Token has expired",
             <<"Bearer realm=", m.audience, "error=invalid_token">>)

\* lines 94-98
InvalidResponse(m) ==
    Response(401, "invalid_token", "Token validation failed",
             <<"Bearer realm=", m.audience, "error=invalid_token">>)

\* An exception that leaves dispatch is answered by Starlette's
\* ServerErrorMiddleware: 500 Internal Server Error.
ServerError == Response(500, "", "", <<>>)

Handled(by, req, net, outcome, exc, response, forwarded, user, fetches, key) ==
    [by |-> by, req |-> req, net |-> net, outcome |-> outcome, exc |-> exc,
     response |-> response, forwarded |-> forwarded, user |-> user,
     fetches |-> fetches, key |-> key]

\* the token decoded without its signature being verified
TryBlockUnverified(m, k, tok, t) ==
    IF k.exc # "none" THEN k.exc
    ELSE ValidateClaims(tok.payload, m.audience, Issuer(m.domain), t)

\* lines 76-83: the exception the try block raises, or "none"
TryBlock(m, k, tok, t) ==
    IF k.exc # "none" THEN k.exc
    ELSE jwt_decode(tok, k.key, {"RS256"}, m.audience, Issuer(m.domain), t)

After(k, h) == [mw |-> k.mw, cache |-> k.cache, created |-> k.created, last |-> h]

\* lines 85-100: the payload is stored and the request forwarded, or the
\* except clause that matches answers, or the exception leaves dispatch
Outcome(m, req, net, k, tok, exc) ==
    IF exc = "none"
    THEN After(k, Handled("auth", req, net, "Authenticated", "none", Downstream, TRUE,
                          [set |-> TRUE, payload |-> tok.payload], k.fetches, k.key))
    ELSE IF ExceptClause(exc) = "expired"
    THEN After(k, Handled("auth", req, net, "Expired", exc, ExpiredResponse(m), FALSE,
                          Unset, k.fetches, k.key))
    ELSE IF ExceptClause(exc) = "invalid"
    THEN After(k, Handled("auth", req, net, "InvalidToken", exc, InvalidResponse(m), FALSE,
                          Unset, k.fetches, k.key))
    ELSE After(k, Handled("auth", req, net, "Uncaught", exc, ServerError, FALSE,
                          Unset, k.fetches, k.key))

\* lines 73-100
Verified(m, req, net, k, tok, t) == Outcome(m, req, net, k, tok, TryBlock(m, k, tok, t))

\* the bypass given only to OPTIONS requests that carry no credentials
IsPreflightWithoutCredentials(req) ==
    req.method = "OPTIONS" /\ "Authorization" \notin DOMAIN req.headers

\* lines 61-62
IsPreflight(req) == req.method = "OPTIONS"

\* line 64
AuthHeader(req) == HeadersGet(req.headers, "Authorization", HeaderValue(<<>>, EmptyString))

\* the prefix compared without its space
IsBearerNoSpace(auth_header) == StartsWith(auth_header.pre, <<"B", "e", "a", "r", "e", "r">>)

\* line 66
IsBearer(auth_header) == StartsWith(auth_header.pre, BearerPrefix)

Same(m, cache, created, h) == [mw |-> m, cache |-> cache, created |-> created, last |-> h]

\* Auth0Middleware.dispatch, up to and including call_next: what it answers,
\* and the middleware, client count and key-set cache it leaves behind.
dispatch(m, cache, created, prov, t, req, net) ==
    IF IsPreflight(req)
    THEN Same(m, cache, created,
              Handled("auth", req, net, "Bypassed", "none", Downstream, TRUE, Unset, 0, ""))
    ELSE IF ~IsBearer(AuthHeader(req))
    THEN Same(m, cache, created,
              Handled("auth", req, net, "InvalidRequest", "none", MissingHeaderResponse(m),
                      FALSE, Unset, 0, ""))
    ELSE Verified(m, req, net,
                  _get_signing_key(m, cache, created, SliceFrom(AuthHeader(req).pre, 7),
                                            AuthHeader(req).tok, prov, t, net),
                  AuthHeader(req).tok, t)

NoKey == [kid |-> "", key |-> ""]

\* the kid a request's credential names, when it is a well-formed token
KidOf(req) ==
    IF IsJwt(AuthHeader(req).tok) THEN AuthHeader(req).tok.header.kid ELSE ""

\* whether handling the request called PyJWKClient.get_signing_key
DidResolve(h) ==
    /\ h.by = "auth"
    /\ h.outcome \notin {"Bypassed", "InvalidRequest"}
    /\ h.exc # "DecodeError"

Resolved(before, h) == IF DidResolve(h) THEN [kid |-> KidOf(h.req), key |-> h.key] ELSE before

NoRequest ==
    Handled("none", Request("", <<>>, NoHeaders), "up", "", "none", Downstream, FALSE, Unset, 0, "")

(***************************************************************************)
(* create_app and the routing of the application it returns                *)
(***************************************************************************)
\* os.getenv(name): unset (None), or the string the variable holds
Unset_env == [set |-> FALSE, val |-> ""]

Env(val) == [set |-> TRUE, val |-> val]

\* bool(v) of Python for an Optional[str]
Truthy(v) == v.set /\ v.val # ""

\* the check without BASE_URL
IsConfiguredIgnoringBaseUrl(c) == Truthy(c.domain) /\ Truthy(c.audience)

\* all([AUTH0_DOMAIN, AUTH0_AUDIENCE, BASE_URL]) of line 250
IsConfigured(c) == Truthy(c.domain) /\ Truthy(c.audience) /\ Truthy(c.base_url)

\* str.rstrip("/") on a path held as a sequence of "/" and segments
RECURSIVE RStripSlash(_)
RStripSlash(p) ==
    IF p # <<>> /\ p[Len(p)] = "/" THEN RStripSlash(SubSeq(p, 1, Len(p) - 1)) ELSE p

\* starlette.routing.Mount(path, app=..., middleware=...): the path loses its
\* trailing slash and the mount matches path + "/{path:path}"
Mount(path, inner, middleware) ==
    [path |-> RStripSlash(path), app |-> inner, middleware |-> middleware]

\* Mount.matches: a full match when the request path starts with path + "/"
MountMatches(mount, path) == StartsWith(path, mount.path \o <<"/">>)

\* lines 252-255
OpenRoutes == <<Mount(<<"/", "mcp">>, "mcp_app", <<>>)>>

\* lines 271-279
ProtectedRoutes ==
    <<Mount(<<"/">>, "metadata_router", <<>>),
      Mount(<<"/", "mcp">>, "mcp_app", <<"Auth0Middleware">>)>>

WarningNotConfigured == <<"WARNING", "Auth0 not configured - running without authentication">>

InfoConfigured == <<"INFO", "Auth0 configured">>

\* the route create_protected_resource_routes declares (GET and OPTIONS)
MetadataPath == <<"/", ".well-known", "/", "oauth-protected-resource">>

MetadataMethods == {"GET", "OPTIONS"}

NotFound == Response(404, "", "", <<>>)

MethodNotAllowed == Response(405, "", "", <<>>)

TemporaryRedirect == Response(307, "", "", <<>>)

\* the metadata Router: its one route, 405 for another method, else not_found
MetadataRouter(req, net) ==
    IF req.path = MetadataPath /\ req.method \in MetadataMethods
    THEN Handled("discovery", req, net, "Metadata", "none", Downstream, FALSE, Unset, 0, "")
    ELSE IF req.path = MetadataPath
    THEN Handled("discovery", req, net, "MethodNotAllowed", "none", MethodNotAllowed, FALSE,
                 Unset, 0, "")
    ELSE Handled("discovery", req, net, "NotFound", "none", NotFound, FALSE, Unset, 0, "")

\* the application a mount wraps answers the request
Serve(mount, m, cache, created, prov, t, req, net) ==
    IF mount.app = "metadata_router"
    THEN Same(m, cache, created, MetadataRouter(req, net))
    ELSE IF mount.middleware = <<"Auth0Middleware">>
    THEN dispatch(m, cache, created, prov, t, req, net)
    ELSE Same(m, cache, created,
              Handled("tools", req, net, "Invoked", "none", Downstream, TRUE, Unset, 0, ""))

\* the routes that fully match, by position
Matching(routes, path) == {i \in 1..Len(routes) : MountMatches(routes[i], path)}

First(S) == CHOOSE i \in S : \A j \in S : i <= j

\* Router.app, redirect_slashes: the path with its trailing slash toggled
Toggled(path) ==
    IF path[Len(path)] = "/" THEN SubSeq(path, 1, Len(path) - 1) ELSE path \o <<"/">>

\* starlette.routing.Router.app: the first route that fully matches handles the
\* request; else a redirect when the path with its slash toggled matches; else 404
RouteResult(routes, m, cache, created, prov, t, req, net) ==
    IF Matching(routes, req.path) # {}
    THEN Serve(routes[First(Matching(routes, req.path))], m, cache, created, prov, t, req, net)
    ELSE IF req.path # <<"/">> /\ Matching(routes, Toggled(req.path)) # {}
    THEN Same(m, cache, created,
              Handled("router", req, net, "Redirect", "none", TemporaryRedirect, FALSE,
                      Unset, 0, ""))
    ELSE Same(m, cache, created,
              Handled("router", req, net, "NotFound", "none", NotFound, FALSE, Unset, 0, ""))

(***************************************************************************)
(* The middleware on its own: requests are handed to dispatch directly     *)
(***************************************************************************)
Unconfigured == [domain |-> [set |-> FALSE, val |-> ""],
                 audience |-> [set |-> FALSE, val |-> ""],
                 base_url |-> [set |-> FALSE, val |-> ""]]

NoApp == [created |-> FALSE, routes |-> <<>>]

Init ==
    /\ now = 0
    /\ provider = ProviderInitial
    /\ mw = NewMiddleware(TestDomain, TestAudience)
    /\ clientsCreated = 0
    /\ jwk_set_cache = EmptyCache
    /\ config = Unconfigured
    /\ app = NoApp
    /\ log = {}
    /\ resolved = NoKey
    /\ last = NoRequest

\* the state a handled request leaves behind
Becomes(r) ==
    /\ mw' = r.mw
    /\ jwk_set_cache' = r.cache
    /\ clientsCreated' = r.created
    /\ last' = r.last @@ [at |-> now, published |-> provider]
    /\ resolved' = Resolved(resolved, r.last)

\* one request through Auth0Middleware.dispatch
Dispatch ==
    /\ last = NoRequest
    /\ \E req \in Requests, net \in NetOutcomes :
            Becomes(dispatch(mw, jwk_set_cache, clientsCreated, provider, now, req, net))
    /\ UNCHANGED <<now, provider, config, app, log>>

\* the response is sent and the request, with its context, is discarded
Complete ==
    /\ last # NoRequest
    /\ last' = NoRequest
    /\ UNCHANGED <<now, provider, mw, clientsCreated, jwk_set_cache, config, app, log, resolved>>

\* time passes
Tick ==
    /\ now < MaxTime
    /\ now' = now + 1
    /\ UNCHANGED <<provider, mw, clientsCreated, jwk_set_cache, config, app, log, resolved, last>>

\* the identity provider starts signing with a new key and publishes it
Rotate ==
    /\ provider = ProviderInitial
    /\ provider' = ProviderRotated
    /\ UNCHANGED <<now, mw, clientsCreated, jwk_set_cache, config, app, log, resolved, last>>

Next == Dispatch \/ Complete \/ Tick \/ Rotate

Spec == Init /\ [][Next]_vars

(***************************************************************************)
(* The application: create_app runs once, then requests are routed         *)
(***************************************************************************)
BaseUrl == "https://mcp.test"

Configs ==
    [domain : {Unset_env, Env(""), Env(TestDomain)},
     audience : {Unset_env, Env(""), Env(TestAudience)},
     base_url : {Unset_env, Env(""), Env(BaseUrl)}]

AppPaths ==
    {<<"/">>, <<"/", "mcp">>, <<"/", "mcp", "/">>, <<"/", "mcp", "/", "mcp">>,
     <<"/", "mcpx">>, <<"/", "other", "/">>, MetadataPath}

AppHeaders ==
    {NoHeaders} \cup
    {WithAuthorization(HeaderValue(BearerPrefix, t)) : t \in {ScenarioA, Forged, Garbage}}

AppRequests ==
    {Request(m, p, h) : m \in {"GET", "POST", "OPTIONS"}, p \in AppPaths, h \in AppHeaders}

InitApp ==
    /\ now = 0
    /\ provider = ProviderInitial
    /\ mw = NoMiddleware
    /\ clientsCreated = 0
    /\ jwk_set_cache = EmptyCache
    /\ config \in Configs
    /\ app = NoApp
    /\ log = {}
    /\ resolved = NoKey
    /\ last = NoRequest

\* create_app, lines 240-279
create_app ==
    /\ ~app.created
    /\ IF ~IsConfigured(config)
       THEN /\ log' = log \cup {WarningNotConfigured}
            /\ app' = [created |-> TRUE, routes |-> OpenRoutes]
            /\ mw' = mw
       ELSE /\ log' = log \cup {InfoConfigured}
            /\ app' = [created |-> TRUE, routes |-> ProtectedRoutes]
            /\ mw' = NewMiddleware(config.domain.val, config.audience.val)
    /\ UNCHANGED <<now, provider, clientsCreated, jwk_set_cache, config, resolved, last>>

\* one request through the application's router
Handle ==
    /\ app.created
    /\ last = NoRequest
    /\ \E req \in AppRequests, net \in NetOutcomes :
            Becomes(RouteResult(app.routes, mw, jwk_set_cache, clientsCreated, provider, now,
                                req, net))
    /\ UNCHANGED <<now, provider, config, app, log>>

NextApp == create_app \/ Handle \/ Complete

SpecApp == InitApp /\ [][NextApp]_vars

(***************************************************************************)
(* Properties                                                              *)
(***************************************************************************)
InDispatch == last # NoRequest /\ last.by = "auth"

Method == last.req.method

HasAuthorization == "Authorization" \in DOMAIN last.req.headers

Credential == last.req.headers["Authorization"]

\* the header is "Bearer " followed by something
BearerHeader ==
    /\ HasAuthorization
    /\ Len(Credential.pre) >= 7
    /\ SubSeq(Credential.pre, 1, 7) = <<"B", "e", "a", "r", "e", "r", " ">>

\* the header is exactly "Bearer " followed by a well-formed token
BearerJwt ==
    /\ HasAuthorization
    /\ Credential.pre = <<"B", "e", "a", "r", "e", "r", " ">>
    /\ "header" \in DOMAIN Credential.tok

Token == Credential.tok

ExpectedIssuer == <<"https://", "idp.test", "/">>

ExpectedAudience == "svc"

\* a key was resolved and the signature verifies under it with RS256
SignatureVerifies ==
    /\ last.key # ""
    /\ Token.header.alg = "RS256"
    /\ Token.sig = last.key

ExpInFuture == "exp" \in DOMAIN Token.payload /\ Token.payload["exp"] > last.at

ExpInPast == "exp" \in DOMAIN Token.payload /\ Token.payload["exp"] <= last.at

AudOk == "aud" \in DOMAIN Token.payload /\ ExpectedAudience \in Token.payload["aud"]

IssOk == "iss" \in DOMAIN Token.payload /\ Token.payload["iss"] = ExpectedIssuer

NotImmature ==
    /\ "nbf" \in DOMAIN Token.payload => Token.payload["nbf"] <= last.at
    /\ "iat" \in DOMAIN Token.payload => Token.payload["iat"] <= last.at

SubOk == "sub" \in DOMAIN Token.payload => Token.payload["sub"][1] = "str"

Rejected401(error, description, www) ==
    last.response = [status |-> 401, error |-> error, error_description |-> description,
                     www_authenticate |-> www]

ForwardedDownstream ==
    /\ last.forwarded
    /\ last.response = [status |-> 200, error |-> "", error_description |-> "",
                        www_authenticate |-> <<>>]

\* a step that hands a request to dispatch
DispatchStep == last = NoRequest /\ last' # NoRequest /\ last'.by = "auth"

KeySetUntouched ==
    /\ mw' = mw
    /\ jwk_set_cache' = jwk_set_cache
    /\ clientsCreated' = clientsCreated
    /\ resolved' = resolved

\* C1 (as stated): dispatch forwards a request if and only if verification
\* produced Authenticated for it.
C1_Original == InDispatch => (last.forwarded <=> last.outcome = "Authenticated")

\* C1 (amended): a request other than OPTIONS is forwarded if and only if
\* verification produced Authenticated, and then request.state.user holds the
\* payload of a token whose signature verified; every other such request is
\* answered 401 or fails, with request.state.user unset. OPTIONS requests are
\* forwarded unverified.
C1_ForwardedIffAuthenticated ==
    InDispatch =>
        IF Method = "OPTIONS" THEN last.forwarded
        ELSE /\ last.forwarded <=> last.outcome = "Authenticated"
             /\ last.forwarded <=> last.user.set
             /\ last.forwarded =>
                    /\ BearerJwt
                    /\ SignatureVerifies
                    /\ <<Token.header.kid, Token.sig>> \in last.published
                    /\ last.user.payload = Token.payload
             /\ ~last.forwarded => last.response.status \in {401, 500}

C1_Witness ==
    InDispatch /\ Method = "POST" /\ last.forwarded /\ last.user.set
    /\ last.outcome = "Authenticated"

\* C2 (as stated): a Bearer token whose kid the provider's key set lacks, or
\* whose key-set fetch fails, is answered 401 invalid_token.
C2_Original ==
    (/\ InDispatch
     /\ Method # "OPTIONS"
     /\ BearerJwt
     /\ \/ \A k \in last.published : k[1] # Token.header.kid
        \/ last.net = "down" /\ last.fetches > 0)
    => last.response.status = 401 /\ last.response.error = "invalid_token"

\* C3 (as stated): every token dispatch accepts has a signature that verifies
\* with RS256, an exp that is present and in the future, an aud that contains
\* the audience and an iss equal to the issuer.
C3_Original ==
    (InDispatch /\ last.outcome = "Authenticated")
    => /\ BearerJwt
       /\ SignatureVerifies
       /\ ExpInFuture
       /\ AudOk
       /\ IssOk

\* C4: a request other than OPTIONS without a "Bearer " Authorization header
\* is answered 401 invalid_request with the realm challenge, and nothing is
\* verified: no key-set client is made or asked, request.state stays as it was.
C4_NoBearerRejectedUnverified ==
    [][(DispatchStep /\ last'.req.method # "OPTIONS" /\ ~BearerHeader')
       => /\ last'.response =
                [status |-> 401, error |-> "invalid_request",
                 error_description |-> "Missing or invalid Authorization header",
                 www_authenticate |-> <<"Bearer realm=", "svc">>]
          /\ ~last'.forwarded
          /\ ~last'.user.set
          /\ last'.fetches = 0
          /\ KeySetUntouched]_vars

C4_Witness ==
    /\ InDispatch /\ Method = "POST" /\ HasAuthorization /\ ~BearerHeader
    /\ last.response.status = 401 /\ last.response.error = "invalid_request"
    /\ mw.jwks_client = "None"

\* the rejection of an expired token
ExpiredRejection ==
    Rejected401("invalid_token", "Token has expired",
                <<"Bearer realm=", "svc", "error=invalid_token">>)

\* the rejection of any other invalid token
GenericRejection ==
    Rejected401("invalid_token", "Token validation failed",
                <<"Bearer realm=", "svc", "error=invalid_token">>)

\* C5 (as stated): the expiry rejection is returned exactly for the tokens
\* whose signature verifies and whose exp is in the past.
C5_Original ==
    (InDispatch /\ Method # "OPTIONS" /\ BearerJwt)
    => (ExpiredRejection <=> (SignatureVerifies /\ ExpInPast))

\* C5 (amended): the expiry rejection is returned exactly for the tokens whose
\* signature verifies, whose exp is in the past and whose nbf and iat, when
\* present, are not in the future; a token whose signature does not verify
\* under the resolved key gets the generic rejection, whatever its exp.
C5_ExpiredExactly ==
    (InDispatch /\ Method # "OPTIONS")
    => /\ ExpiredRejection <=> (BearerJwt /\ SignatureVerifies /\ ExpInPast /\ NotImmature)
       /\ (BearerJwt /\ last.key # "" /\ ~SignatureVerifies) => GenericRejection

C5_Witness ==
    /\ InDispatch /\ BearerJwt /\ SignatureVerifies /\ ExpInPast
    /\ ExpiredRejection /\ ~last.forwarded

\* C6: an OPTIONS request is forwarded whatever its Authorization header; it is
\* never answered 401 and nothing is verified or fetched for it.
C6_OptionsBypass ==
    [][(DispatchStep /\ last'.req.method = "OPTIONS")
       => /\ last'.forwarded
          /\ last'.response = [status |-> 200, error |-> "", error_description |-> "",
                               www_authenticate |-> <<>>]
          /\ last'.fetches = 0
          /\ KeySetUntouched]_vars

C6_Witness ==
    /\ InDispatch /\ Method = "OPTIONS" /\ BearerJwt /\ Token.sig # "m1"
    /\ ForwardedDownstream

\* what C7 promises for a token: its payload in request.state.user, the
\* request forwarded and the downstream response returned
Accepted ==
    /\ last.outcome = "Authenticated"
    /\ last.user.set
    /\ last.user.payload = Token.payload
    /\ ("sub" \in DOMAIN Token.payload => last.user.payload["sub"] = Token.payload["sub"])
    /\ ForwardedDownstream

\* C7 (as stated): a Bearer token whose signature verifies and whose aud, iss
\* and exp are as expected is accepted.
C7_Original ==
    (InDispatch /\ Method # "OPTIONS" /\ BearerJwt /\ SignatureVerifies
     /\ AudOk /\ IssOk /\ ExpInFuture)
    => Accepted

\* C7 (amended): a Bearer token whose signature verifies, whose aud, iss and
\* exp are as expected, whose nbf and iat, when present, are not in the future
\* and whose sub, when present, is a string, is accepted.
C7_ValidTokenAccepted ==
    (InDispatch /\ Method # "OPTIONS" /\ BearerJwt /\ SignatureVerifies
     /\ AudOk /\ IssOk /\ ExpInFuture /\ NotImmature /\ SubOk)
    => Accepted

C7_Witness ==
    /\ InDispatch /\ Method = "POST" /\ BearerJwt /\ SignatureVerifies
    /\ AudOk /\ IssOk /\ ExpInFuture /\ "sub" \in DOMAIN Token.payload
    /\ Accepted

\* the key-set client is made at most once, and not at construction
LazyClient ==
    /\ clientsCreated <= 1
    /\ clientsCreated = 0 <=> mw.jwks_client = "None"

\* a step in which dispatch resolves again the kid it last resolved to a key
ResolvesAgain ==
    /\ DispatchStep
    /\ resolved.key # ""
    /\ last'.req.method # "OPTIONS"
    /\ BearerJwt'
    /\ Token'.header.kid = resolved.kid

FullyConfigured ==
    /\ config.domain.set /\ config.domain.val # ""
    /\ config.audience.set /\ config.audience.val # ""
    /\ config.base_url.set /\ config.base_url.val # ""

OpenComposition ==
    /\ app.routes = <<[path |-> <<"/", "mcp">>, app |-> "mcp_app", middleware |-> <<>>]>>
    /\ ~mw.constructed
    /\ log = {<<"WARNING", "Auth0 not configured - running without authentication">>}

ProtectedComposition ==
    /\ Len(app.routes) = 2
    /\ app.routes[2] =
          [path |-> <<"/", "mcp">>, app |-> "mcp_app", middleware |-> <<"Auth0Middleware">>]
    /\ app.routes[1].app = "metadata_router"
    /\ mw.constructed /\ mw.domain = config.domain.val /\ mw.audience = config.audience.val
    /\ <<"WARNING", "Auth0 not configured - running without authentication">> \notin log

\* the request path is under /mcp
UnderMcp == Len(last.req.path) >= 3 /\ SubSeq(last.req.path, 1, 3) = <<"/", "mcp", "/">>

\* C9: create_app builds the open composition (a warning, the tool surface
\* alone, no Auth Enforcement Layer) when any of domain, audience or base URL
\* is unset or empty, and the protected one only when all three are present;
\* in the open composition every request under /mcp reaches tool invocation
\* whatever its Authorization header, and none is answered 401.
C9_TwoCompositions ==
    /\ ~app.created => (app = [created |-> FALSE, routes |-> <<>>] /\ log = {})
    /\ app.created =>
          /\ FullyConfigured => ProtectedComposition
          /\ ~FullyConfigured => OpenComposition
    /\ (app.created /\ ~FullyConfigured /\ last # NoRequest) =>
          /\ last.response.status # 401
          /\ last.by # "auth"
          /\ UnderMcp => (last.by = "tools" /\ ForwardedDownstream)

C9_Witness ==
    /\ app.created
    /\ config.domain.set /\ config.domain.val # ""
    /\ config.audience.set /\ config.audience.val # ""
    /\ config.base_url.set /\ config.base_url.val = ""
    /\ OpenComposition
    /\ last # NoRequest /\ UnderMcp /\ ~HasAuthorization /\ Method = "POST"
    /\ last.by = "tools" /\ ForwardedDownstream

\* C10 (as stated): in the protected composition every request under /mcp is
\* handled by the Auth Enforcement Layer and, when authenticated, reaches tool
\* invocation; the Discovery Router never answers it, and a request the
\* Discovery Router answers never consults the verifier.
C10_Original ==
    (app.created /\ FullyConfigured /\ last # NoRequest) =>
        /\ UnderMcp =>
              /\ last.by = "auth"
              /\ last.outcome = "Authenticated" => last.forwarded
        /\ last.by = "discovery" => (last.fetches = 0 /\ mw.jwks_client = "None")

====
